---- MODULE Spec2Model ----
(***************************************************************************)
(* Model of get-data/intradaytick.cpp: the IntradayTick scraper.           *)
(*                                                                         *)
(* A std::string is a sequence of one-character strings, so that indexing  *)
(* (item_date[9]), substr(0, 10) and replace() are computed as the code    *)
(* computes them.  C++ positions are 0-based, sequences here are 1-based:  *)
(* s[9] in the code is s[10] here.                                         *)
(***************************************************************************)
EXTENDS Integers, Sequences, FiniteSets, TLC

VARIABLES
    argv,                   \* argv[1..argc-1] of main
    stdin,                  \* the lines the user types at the prompts of setConfig
    clock,                  \* what time(0) returns
    sessionUp,              \* whether session.start() and openService() succeed
    oldDates,               \* dates whose file already holds a row before the run
    pc,                     \* position of main / run / eventLoop
    d_host, d_port, d_security, d_events, d_startDateTime, d_endDateTime,
    d_security_assigned, d_startDateTime_assigned, d_endDateTime_assigned,
    d_non_interactive,
    csv_file,               \* name of the file the ofstream has open, or Closed
    current_processed_date,
    oob,                    \* outcome of reading current_processed_date[9] past the
                            \* end of the string, once the run has read it
    disk,                   \* file system: file name -> rows
    request,                \* the request handed to session.sendRequest, or NoRequest
    done,                   \* eventLoop's local flag
    event,                  \* eventLoop's local: type of the event being handled
    polled,                 \* number of session.nextEvent() calls so far
    iterated,               \* messages the MessageIterator has yielded of this event
    evErrors, evData,       \* of these, how many had a responseError, how many had not
    evTerminated,           \* whether one of them was SessionTerminated
    arrived,                \* tick elements of all non-error response messages, in order
    written,                \* every row the run wrote: <<file name, row>>, in order
    parseOk,                \* result of parseCommandLine
    waited,                 \* main blocked on std::getline for the ENTER key
    tickBudget, eventBudget \* bounds on the session's deliveries

vars == <<argv, stdin, clock, sessionUp, oldDates, pc, d_host, d_port,
          d_security, d_events, d_startDateTime, d_endDateTime,
          d_security_assigned, d_startDateTime_assigned,
          d_endDateTime_assigned, d_non_interactive, csv_file,
          current_processed_date, oob, disk, request, done, event, polled,
          iterated, evErrors, evData, evTerminated, arrived, written, parseOk,
          waited, tickBudget, eventBudget>>

-----------------------------------------------------------------------------
(* Bounds of the model *)

MaxArgs == 2
MaxTicks == 3
MaxEvents == 2
MaxMsgs == 2
CliTicks == 0
CliEvents == 1

-----------------------------------------------------------------------------
(* Strings *)

SeqsUpTo(S, n) == UNION {[1..k -> S] : k \in 0..n}

RECURSIVE Repeat(_, _)
Repeat(n, c) == IF n <= 0 THEN <<>> ELSE <<c>> \o Repeat(n - 1, c)

\* s.substr(pos, n) for pos <= size()
Substr(s, pos, n) ==
    SubSeq(s, pos + 1, IF pos + n <= Len(s) THEN pos + n ELSE Len(s))

IsPrefix(p, s) == Len(p) <= Len(s) /\ SubSeq(s, 1, Len(p)) = p

OptS == <<"-", "s">>
OptN == <<"-", "n">>
OptE == <<"-", "e">>
OptSD == <<"-", "s", "d">>
OptED == <<"-", "e", "d">>
OptIP == <<"-", "i", "p">>
OptP == <<"-", "p">>

TRADE == <<"T", "R", "A", "D", "E">>
BID == <<"B", "I", "D">>
ASK == <<"A", "S", "K">>

LocalHost == <<"l", "o", "c", "a", "l", "h", "o", "s", "t">>
DefaultPort == 8194

\* Dates of the model: 31 January, 1 and 2 February 2020.
Jan31 == <<"2", "0", "2", "0", "-", "0", "1", "-", "3", "1">>
Feb01 == <<"2", "0", "2", "0", "-", "0", "2", "-", "0", "1">>
Feb02 == <<"2", "0", "2", "0", "-", "0", "2", "-", "0", "2">>
Dates == {Jan31, Feb01, Feb02}

Port80 == <<"8", "0">>
SecAB == <<"A", " ", "B">>
SecC == <<"C">>

\* a datetime as the user or the vendor writes it: the date, then the time
AtTime(d) == d \o <<"T", "1", "5">>

-----------------------------------------------------------------------------
(* parseCommandLine *)

Digits == <<"0", "1", "2", "3", "4", "5", "6", "7", "8", "9">>
IsDigit(c) == \E k \in 1..10 : Digits[k] = c
DigitVal(c) == (CHOOSE k \in 1..10 : Digits[k] = c) - 1

\* std::atoi on a string without sign or leading blanks: the leading digits
RECURSIVE AtoiFrom(_, _, _)
AtoiFrom(s, k, acc) ==
    IF k > Len(s) \/ ~IsDigit(s[k]) THEN acc
    ELSE AtoiFrom(s, k + 1, acc * 10 + DigitVal(s[k]))
Atoi(s) == AtoiFrom(s, 1, 0)

\* the members parseCommandLine assigns, as the constructor leaves them
Constructed ==
    [host |-> LocalHost, port |-> DefaultPort, security |-> <<>>,
     events |-> <<>>, startDateTime |-> <<>>, endDateTime |-> <<>>,
     security_assigned |-> FALSE, startDateTime_assigned |-> FALSE,
     endDateTime_assigned |-> FALSE, non_interactive |-> FALSE, ok |-> FALSE]

\* line 109
NFlagTaken(av, i) == av[i] = OptN /\ i < Len(av)

AddDefaultsAlways(ev) == ev \o <<TRADE, BID, ASK>>
\* lines 136-141
AddDefaultEvents(ev) == IF Len(ev) = 0 THEN <<TRADE, BID, ASK>> ELSE ev

\* the for loop of lines 104-134 from index i on, then lines 136-142;
\* "i + 1 < argc" is i < Len(av), since av holds argv[1..argc-1]
RECURSIVE ParseFrom(_, _, _)
ParseFrom(av, i, st) ==
    IF i > Len(av)
    THEN [st EXCEPT !.events = AddDefaultEvents(st.events), !.ok = TRUE]
    ELSE IF av[i] = OptS /\ i < Len(av)
    THEN ParseFrom(av, i + 2, [st EXCEPT !.security = av[i + 1],
                                         !.security_assigned = TRUE])
    ELSE IF NFlagTaken(av, i)
    THEN ParseFrom(av, i + 1, [st EXCEPT !.non_interactive = TRUE])
    ELSE IF av[i] = OptE /\ i < Len(av)
    THEN ParseFrom(av, i + 2, [st EXCEPT !.events = Append(st.events, av[i + 1])])
    ELSE IF av[i] = OptSD /\ i < Len(av)
    THEN ParseFrom(av, i + 2, [st EXCEPT !.startDateTime = av[i + 1],
                                         !.startDateTime_assigned = TRUE])
    ELSE IF av[i] = OptED /\ i < Len(av)
    THEN ParseFrom(av, i + 2, [st EXCEPT !.endDateTime = av[i + 1],
                                         !.endDateTime_assigned = TRUE])
    ELSE IF av[i] = OptIP /\ i < Len(av)
    THEN ParseFrom(av, i + 2, [st EXCEPT !.host = av[i + 1]])
    ELSE IF av[i] = OptP /\ i < Len(av)
    THEN ParseFrom(av, i + 2, [st EXCEPT !.port = Atoi(av[i + 1])])
    ELSE [st EXCEPT !.ok = FALSE]

parseCommandLine(av) == ParseFrom(av, 1, Constructed)

-----------------------------------------------------------------------------
(* getTradingDateRange and the request *)

SecondsPerDay == 86400
EpochWeekday == 4       \* 1 January 1970 was a Thursday (tm_wday = 4)
FirstDay == 18289       \* 28 January 2020, a Tuesday, in days since the epoch
DaySpan == 6            \* the clock of a run is on FirstDay .. FirstDay + DaySpan

\* localtime_s: the calendar day of a time_t and its tm_wday (0 = Sunday)
DayOf(t) == t \div SecondsPerDay
WDay(t) == (DayOf(t) + EpochWeekday) % 7

SundayOnly(wday) == wday = 0
\* line 275
IsWeekend(wday) == wday = 0 \/ wday = 6

\* the while loop of lines 267-291, n days examined so far
RECURSIVE TradingLoop(_, _)
TradingLoop(currTime, n) ==
    IF currTime > 0
    THEN LET t == currTime - SecondsPerDay IN
         IF IsWeekend(WDay(t))
         THEN TradingLoop(t, n + 1)
         ELSE [rc |-> 0, examined |-> n + 1,
               startDate |-> [day |-> DayOf(t), time |-> <<15, 30, 0>>],
               endDate |-> [day |-> DayOf(t), time |-> <<15, 35, 0>>]]
    ELSE [rc |-> -1, examined |-> n, startDate |-> <<>>, endDate |-> <<>>]

getTradingDateRange(currTime) == TradingLoop(currTime, 0)

NoRequest == [sent |-> FALSE]
Unset == <<"unset">>

\* lines 196-225: the request built from the members, the clock read by time(0)
BuildRequest(security, events, start, end, currTime) ==
    LET r == getTradingDateRange(currTime) IN
    [sent |-> TRUE, security |-> security, eventTypes |-> events,
     computed |-> (start = <<>> \/ end = <<>>),
     examined |-> IF start = <<>> \/ end = <<>> THEN r.examined ELSE 0,
     startDateTime |-> IF start = <<>> \/ end = <<>>
                       THEN (IF r.rc = 0 THEN r.startDate ELSE Unset)
                       ELSE start,
     endDateTime |-> IF start = <<>> \/ end = <<>>
                     THEN (IF r.rc = 0 THEN r.endDate ELSE Unset)
                     ELSE end]

-----------------------------------------------------------------------------
(* CSV files *)

Closed == <<>>
SpaceCode == 32         \* the char ' ' converted to the count of replace()
OldRow == <<"old">>

\* the value of a char converted to size_type; only the blank is converted
CharCode(c) == IF c = " " THEN SpaceCode ELSE 0

\* basic_string::replace(first, last, count, ch): the characters of
\* [first, last) give way to count copies of ch (positions 0-based)
ReplaceRange(s, first, last, count, ch) ==
    SubSeq(s, 1, first) \o Repeat(count, ch) \o SubSeq(s, last + 1, Len(s))

\* line 301: d_security.replace(d_security.begin(), d_security.end(), ' ', '-')
\* is the member replace(first, last, count, ch) with count = ' ' = 32
StringReplace(s, a, b) == ReplaceRange(s, 0, Len(s), CharCode(a), b)

\* makeFileName: the name, and d_security as the call leaves it
makeFileName(security, datetime) ==
    LET sec == StringReplace(security, " ", "-") IN
    [name |-> sec \o <<"_">> \o Substr(datetime, 0, 10)
                  \o <<".", "c", "s", "v">>,
     security |-> sec]

\* the rows of a file the run has not touched yet
FileDate(name) == Substr(name, Len(name) - 14, 10)
Untouched(name, old) ==
    IF Len(name) >= 14 /\ FileDate(name) \in old THEN <<OldRow>> ELSE <<>>

Content(fs, name, old) ==
    IF name \in DOMAIN fs THEN fs[name] ELSE Untouched(name, old)

OpenTrunc(fs, name, old) ==
    [f \in DOMAIN fs \cup {name} |-> IF f = name THEN <<>> ELSE fs[f]]
\* csv_file.open(name, std::ios_base::app): the file is created if missing
\* and keeps its rows
OpenAppend(fs, name, old) ==
    [f \in DOMAIN fs \cup {name} |-> Content(fs, f, old)]

-----------------------------------------------------------------------------
(* processMessage, processResponseEvent *)

NUL == "NUL"
Abort == "abort"
Unread == "unread"
\* current_processed_date[9] on a string shorter than 9 characters is a read
\* past the end: a checked build stops the process, an unchecked build yields
\* whatever byte lies there
OobOutcomes == {Abort, NUL, "1", "2"}

\* whether s[pos] reads past the terminator of s (pos 0-based)
PastEnd(s, pos) == pos > Len(s)

\* s[pos] of std::string
CharAt(s, pos, past) ==
    IF pos < Len(s) THEN s[pos + 1]
    ELSE IF pos = Len(s) THEN NUL
    ELSE past

\* lines 319-321; aborted when the read past the end stops the process
dateChanged(item_date, cpd, past) ==
    LET a == CharAt(item_date, 9, past)
        b == CharAt(cpd, 9, past)
    IN  [aborted |-> (a = Abort \/ b = Abort), changed |-> (a /= b),
         oobRead |-> (PastEnd(item_date, 9) \/ PastEnd(cpd, 9))]

\* the part of the object the CSV code works on
FileState(fs, file, cpd, sec, wr) ==
    [disk |-> fs, csv_file |-> file, current_processed_date |-> cpd,
     d_security |-> sec, written |-> wr, aborted |-> FALSE, oobRead |-> FALSE]

\* csv_file.open(makeFileName(datetime), std::ios_base::app)
OpenCSV(st, datetime, old) ==
    LET mk == makeFileName(st.d_security, datetime) IN
    [st EXCEPT !.d_security = mk.security,
               !.csv_file = mk.name,
               !.disk = OpenAppend(st.disk, mk.name, old)]

\* lines 308-310
loadCSV(st, startDateTime, old) == OpenCSV(st, startDateTime, old)

\* lines 312-316
reloadCSV(st, item_date, old) ==
    OpenCSV([st EXCEPT !.csv_file = Closed,
                       !.current_processed_date = item_date],
            item_date, old)

\* the text "time,type,value,size" of lines 171-176; the value is printed
\* fixed with three decimals
FormatRow(item) == <<item.time, item.type, <<"%.3f", item.value>>, item.size>>

\* operator<< on csv_file: nothing is written while no file is open
WriteRow(st, row) ==
    IF st.csv_file = Closed THEN st
    ELSE [st EXCEPT !.disk[st.csv_file] = Append(@, row),
                    !.written = Append(@, <<st.csv_file, row>>)]

\* the for loop of lines 158-177 from element k on
RECURSIVE ItemsFrom(_, _, _, _, _)
ItemsFrom(st, data, k, past, old) ==
    IF k > Len(data) \/ st.aborted THEN st
    ELSE LET ch == dateChanged(data[k].time, st.current_processed_date, past)
             s0 == [st EXCEPT !.oobRead = @ \/ ch.oobRead]
         IN
         IF ch.aborted THEN [s0 EXCEPT !.aborted = TRUE]
         ELSE LET s1 == IF ch.changed THEN reloadCSV(s0, data[k].time, old) ELSE s0 IN
              ItemsFrom(WriteRow(s1, FormatRow(data[k])), data, k + 1, past, old)

\* lines 145-178
processMessage(st, msg, past, old) == ItemsFrom(st, msg.ticks, 1, past, old)

\* lines 185-190: one message of a response event
\* without the continue of line 188 the error message reaches processMessage,
\* whose getElement(TICK_DATA) throws out of the loop
HandleWithoutSkip(st, msg, past, old) ==
    IF msg.error THEN [st EXCEPT !.aborted = TRUE]
    ELSE processMessage(st, msg, past, old)
HandleResponseMessage(st, msg, past, old) ==
    IF msg.error THEN st ELSE processMessage(st, msg, past, old)

-----------------------------------------------------------------------------
(* What the session delivers *)

PARTIAL_RESPONSE == "PARTIAL_RESPONSE"
RESPONSE == "RESPONSE"
SESSION_STATUS == "SESSION_STATUS"
SERVICE_STATUS == "SERVICE_STATUS"
SESSION_TERMINATED == "SessionTerminated"
EventTypes == {PARTIAL_RESPONSE, RESPONSE, SESSION_STATUS, SERVICE_STATUS}
NoEvent == "none"

IsResponse(ty) == ty \in {PARTIAL_RESPONSE, RESPONSE}

Ticks == {[time |-> AtTime(d), type |-> BID, value |-> 1, size |-> 1] : d \in Dates}

\* a message with a responseError element carries the error in place of data
ErrorMsg == [mtype |-> "IntradayTickResponse", error |-> TRUE, ticks |-> <<>>]
DataMsg(t) == [mtype |-> "IntradayTickResponse", error |-> FALSE, ticks |-> t]
StatusMsg(m) == [mtype |-> m, error |-> FALSE, ticks |-> <<>>]

\* the messages an event of type ty may hold, with at most n tick elements
Messages(ty, n) ==
    IF IsResponse(ty)
    THEN {ErrorMsg} \cup {DataMsg(t) : t \in SeqsUpTo(Ticks, n)}
    ELSE {StatusMsg(SESSION_TERMINATED), StatusMsg("SessionStarted")}

-----------------------------------------------------------------------------
(* Inputs *)

Options == {OptS, OptN, OptE, OptSD, OptED, OptIP, OptP}
Tokens == Options \cup {BID}

\* every command line of at most MaxArgs arguments, and some longer ones
ArgvAll ==
    SeqsUpTo(Tokens, MaxArgs)
    \cup {<<OptN, OptS, SecAB>>, <<OptE, BID, OptE, ASK>>,
          <<OptS, SecAB, OptE, ASK, OptN>>, <<OptIP, LocalHost, OptP, Port80>>,
          <<OptN, OptS, SecAB, OptSD, AtTime(Jan31), OptED, AtTime(Feb02)>>}

Typed(sec, sd, ed) == [security |-> sec, start |-> sd, end |-> ed]
\* what the user may type at the prompts of setConfig
StdinAll ==
    {Typed(sec, sd, ed) : sec \in {SecAB, SecC}, sd \in {<<>>, AtTime(Feb01)},
                          ed \in {<<>>, AtTime(Feb02)}}
StdinRun == {Typed(SecAB, AtTime(Jan31), AtTime(Feb02))}

\* time(0): midnight and the last second of each day of the span
Clock ==
    {d * SecondsPerDay + s :
        d \in FirstDay..(FirstDay + DaySpan), s \in {0, SecondsPerDay - 1}}
Noon == FirstDay * SecondsPerDay + (SecondsPerDay \div 2)

-----------------------------------------------------------------------------
(* The program *)

\* the state after IntradayTick::IntradayTick(), lines 367-375
InitWith(argvs, stdins, clocks, olds, ticks, events) ==
    /\ argv \in argvs
    /\ stdin \in stdins
    /\ clock \in clocks
    /\ sessionUp \in BOOLEAN
    /\ oldDates \in olds
    /\ pc = "start"
    /\ d_host = Constructed.host
    /\ d_port = Constructed.port
    /\ d_security = Constructed.security
    /\ d_events = Constructed.events
    /\ d_startDateTime = Constructed.startDateTime
    /\ d_endDateTime = Constructed.endDateTime
    /\ d_security_assigned = Constructed.security_assigned
    /\ d_startDateTime_assigned = Constructed.startDateTime_assigned
    /\ d_endDateTime_assigned = Constructed.endDateTime_assigned
    /\ d_non_interactive = Constructed.non_interactive
    /\ csv_file = Closed
    /\ current_processed_date = <<>>
    /\ oob = Unread
    /\ disk = <<>>
    /\ request = NoRequest
    /\ done = FALSE
    /\ event = NoEvent
    /\ polled = 0
    /\ iterated = 0
    /\ evErrors = 0
    /\ evData = 0
    /\ evTerminated = FALSE
    /\ arrived = <<>>
    /\ written = <<>>
    /\ parseOk = FALSE
    /\ waited = FALSE
    /\ tickBudget = ticks
    /\ eventBudget = events

Init == InitWith({<<>>}, StdinRun, {Noon}, {{}, {Feb01}}, MaxTicks, MaxEvents)
InitCli == InitWith(ArgvAll, StdinRun, {Noon}, {{}}, CliTicks, CliEvents)
InitDates ==
    InitWith({<<>>, <<OptSD, AtTime(Jan31), OptED, AtTime(Feb02)>>}, StdinAll,
             Clock, {{}}, CliTicks, CliEvents)

members == <<d_host, d_port, d_security, d_events, d_startDateTime,
             d_endDateTime, d_security_assigned, d_startDateTime_assigned,
             d_endDateTime_assigned, d_non_interactive>>
files == <<csv_file, current_processed_date, oob, disk, written>>
inputs == <<argv, stdin, clock, sessionUp, oldDates, tickBudget, eventBudget>>
polling == <<done, event, polled, iterated, evErrors, evData, evTerminated, arrived>>

\* run(), line 382
RunParse ==
    /\ pc = "start"
    /\ LET r == parseCommandLine(argv) IN
        /\ d_host' = r.host
        /\ d_port' = r.port
        /\ d_security' = r.security
        /\ d_events' = r.events
        /\ d_startDateTime' = r.startDateTime
        /\ d_endDateTime' = r.endDateTime
        /\ d_security_assigned' = r.security_assigned
        /\ d_startDateTime_assigned' = r.startDateTime_assigned
        /\ d_endDateTime_assigned' = r.endDateTime_assigned
        /\ d_non_interactive' = r.non_interactive
        /\ parseOk' = r.ok
        /\ pc' = IF r.ok THEN "config" ELSE "mainTail"
    /\ UNCHANGED <<files, inputs, polling, request, waited>>

\* setConfig, lines 328-363
SetConfig ==
    /\ pc = "config"
    /\ d_security' = IF d_security_assigned THEN d_security ELSE stdin.security
    /\ d_startDateTime' =
            IF d_startDateTime_assigned THEN d_startDateTime ELSE stdin.start
    /\ d_endDateTime' = IF d_endDateTime_assigned THEN d_endDateTime ELSE stdin.end
    /\ pc' = "connect"
    /\ UNCHANGED <<d_host, d_port, d_events, d_security_assigned,
                   d_startDateTime_assigned, d_endDateTime_assigned,
                   d_non_interactive, files, inputs, polling, request, parseOk,
                   waited>>

\* run(), lines 385-398
StartSession ==
    /\ pc = "connect"
    /\ pc' = IF sessionUp THEN "send" ELSE "mainTail"
    /\ UNCHANGED <<members, files, inputs, polling, request, parseOk, waited>>

\* sendIntradayTickRequest, lines 194-226
SendRequest ==
    /\ pc = "send"
    /\ request' = BuildRequest(d_security, d_events, d_startDateTime,
                               d_endDateTime, clock)
    /\ pc' = "load"
    /\ UNCHANGED <<members, files, inputs, polling, parseOk, waited>>

\* eventLoop, lines 230-231
LoadCSV ==
    /\ pc = "load"
    /\ LET st == loadCSV(FileState(disk, csv_file, current_processed_date,
                                   d_security, written),
                         d_startDateTime, oldDates) IN
        /\ disk' = st.disk
        /\ csv_file' = st.csv_file
        /\ d_security' = st.d_security
    /\ done' = FALSE
    /\ pc' = "poll"
    /\ UNCHANGED <<d_host, d_port, d_events, d_startDateTime, d_endDateTime,
                   d_security_assigned, d_startDateTime_assigned,
                   d_endDateTime_assigned, d_non_interactive,
                   current_processed_date, oob, written, inputs, event, polled,
                   iterated, evErrors, evData, evTerminated, arrived, request,
                   parseOk, waited>>

\* line 234: session.nextEvent() returns an event
PollEvent ==
    /\ pc = "poll"
    /\ polled < eventBudget
    /\ \E ty \in EventTypes : event' = ty
    /\ polled' = polled + 1
    /\ iterated' = 0
    /\ evErrors' = 0
    /\ evData' = 0
    /\ evTerminated' = FALSE
    /\ pc' = "iter"
    /\ UNCHANGED <<members, files, inputs, done, arrived, request, parseOk, waited>>

\* lines 248-252
StatusEnds(ty, msg) == ty = SESSION_STATUS /\ msg.mtype = SESSION_TERMINATED

\* msgIter.next() yields a message: lines 183-190 for a response event,
\* lines 246-253 for any other
NextMessage ==
    /\ pc = "iter"
    /\ iterated < MaxMsgs
    /\ \E msg \in Messages(event, tickBudget - Len(arrived)),
          past \in (IF oob = Unread THEN OobOutcomes ELSE {oob}) :
        LET st0 == FileState(disk, csv_file, current_processed_date,
                             d_security, written)
            st == IF IsResponse(event)
                  THEN HandleResponseMessage(st0, msg, past, oldDates)
                  ELSE st0
        IN  /\ disk' = st.disk
            /\ csv_file' = st.csv_file
            /\ current_processed_date' = st.current_processed_date
            /\ d_security' = st.d_security
            /\ written' = st.written
            /\ oob' = IF st.oobRead THEN past ELSE oob
            /\ pc' = IF st.aborted THEN "aborted" ELSE "iter"
            /\ done' = IF IsResponse(event) THEN done
                       ELSE (done \/ StatusEnds(event, msg))
            /\ evErrors' = IF msg.error THEN evErrors + 1 ELSE evErrors
            /\ evData' = IF IsResponse(event) /\ ~msg.error THEN evData + 1 ELSE evData
            /\ evTerminated' = (evTerminated \/ msg.mtype = SESSION_TERMINATED)
            /\ arrived' = IF IsResponse(event) /\ ~msg.error
                          THEN arrived \o msg.ticks ELSE arrived
    /\ iterated' = iterated + 1
    /\ UNCHANGED <<d_host, d_port, d_events, d_startDateTime, d_endDateTime,
                   d_security_assigned, d_startDateTime_assigned,
                   d_endDateTime_assigned, d_non_interactive, inputs, event,
                   polled, request, parseOk, waited>>

\* line 242: a RESPONSE event sets done once its messages are handled
ResponseEnds(ty) == ty = RESPONSE

\* msgIter.next() yields no further message; the while condition of line 233
EndEvent ==
    /\ pc = "iter"
    /\ done' = (done \/ ResponseEnds(event))
    /\ pc' = IF done' THEN "unload" ELSE "poll"
    /\ UNCHANGED <<members, files, inputs, event, polled, iterated, evErrors,
                   evData, evTerminated, arrived, request, parseOk, waited>>

\* eventLoop, line 257, then session.stop() and the return to main
UnloadCSV ==
    /\ pc = "unload"
    /\ csv_file' = Closed
    /\ pc' = "mainTail"
    /\ UNCHANGED <<members, current_processed_date, oob, disk, written,
                   inputs, polling, request, parseOk, waited>>

\* isInteractive, lines 408-410
isInteractive == d_non_interactive

\* main, lines 424-432
MainTail ==
    /\ pc = "mainTail"
    /\ pc' = IF isInteractive THEN "exited" ELSE "waitEnter"
    /\ waited' = ~isInteractive
    /\ UNCHANGED <<members, files, inputs, polling, request, parseOk>>

\* main, lines 433-434: the ENTER key arrives
PressEnter ==
    /\ pc = "waitEnter"
    /\ pc' = "exited"
    /\ UNCHANGED <<members, files, inputs, polling, request, parseOk, waited>>

Next ==
    \/ RunParse
    \/ SetConfig
    \/ StartSession
    \/ SendRequest
    \/ LoadCSV
    \/ PollEvent
    \/ NextMessage
    \/ EndEvent
    \/ UnloadCSV
    \/ MainTail
    \/ PressEnter

Spec == Init /\ [][Next]_vars
SpecCli == InitCli /\ [][Next]_vars
SpecDates == InitDates /\ [][Next]_vars

-----------------------------------------------------------------------------
(* Properties *)

RowOf(w) == w[2]
FileOf(w) == w[1]
DateOfRow(row) == Substr(row[1], 0, 10)
DayOfMonth(row) == Substr(row[1], 8, 2)
Csv == <<".", "c", "s", "v">>
\* every occurrence of old in s replaced by new
ReplaceEach(s, old, new) == [k \in 1..Len(s) |-> IF s[k] = old THEN new ELSE s[k]]

\* C1: whenever the day-of-month of a row's timestamp differs from that of the
\* row written before it, the row is in the file named for its own date.
C1_RolloverOnDayChange ==
    \A k \in 2..Len(written) :
        DayOfMonth(RowOf(written[k])) /= DayOfMonth(RowOf(written[k - 1]))
            => FileDate(FileOf(written[k])) = DateOfRow(RowOf(written[k]))

\* C2: the open file is named <security with blanks as dashes>_<date>.csv, and
\* d_security is still the security the request was sent for.
C2_FileNamedFromSecurity ==
    (csv_file /= Closed /\ request.sent) =>
        /\ d_security = request.security
        /\ \E d \in {Substr(d_startDateTime, 0, 10), Substr(current_processed_date, 0, 10)} :
              csv_file = ReplaceEach(request.security, " ", "-") \o <<"_">> \o d \o Csv

AfterLoop == request.sent /\ pc \in {"aborted", "mainTail", "waitEnter", "exited"}
TerminalEvent == event = RESPONSE \/ (event = SESSION_STATUS /\ evTerminated)

\* C3: once the run has stopped polling, the last event it handled was a
\* RESPONSE or a SESSION_STATUS carrying SessionTerminated, and the CSV file
\* is closed.
C3_StopsAfterTerminalEvent ==
    AfterLoop => (TerminalEvent /\ done /\ csv_file = Closed)

\* C4: the rows written are the tick elements of the non-error messages, one
\* row each, in arrival order.
C4_OneRowPerElement ==
    [k \in 1..Len(written) |-> RowOf(written[k])]
        = [k \in 1..Len(arrived) |-> FormatRow(arrived[k])]

RefWeekend(day) == ((day + EpochWeekday) % 7) \in {0, 6}
\* the latest day from `from` backwards that is not a Saturday or Sunday
LatestWeekday(from) ==
    CHOOSE d \in (from - 2)..from :
        ~RefWeekend(d) /\ \A e \in (d + 1)..from : RefWeekend(e)
Window(day) ==
    [start |-> [day |-> day, time |-> <<15, 30, 0>>],
     end |-> [day |-> day, time |-> <<15, 35, 0>>]]
RangeIs(day) ==
    /\ request.startDateTime = Window(day).start
    /\ request.endDateTime = Window(day).end
    /\ request.examined <= 3
ExplicitRange ==
    /\ request.startDateTime = d_startDateTime
    /\ request.endDateTime = d_endDateTime
NoRange == d_startDateTime = <<>> \/ d_endDateTime = <<>>

\* C5 as stated: without a date range the request is for 15:30:00-15:35:00 on
\* the most recent day that is not a Saturday or Sunday, found within three
\* days; with a range it carries the range.
C5_MostRecentWeekday ==
    request.sent =>
        IF NoRange THEN RangeIs(LatestWeekday(DayOf(clock))) ELSE ExplicitRange

\* C5 amended: the day is the most recent day before the current day that is
\* not a Saturday or Sunday.
C5_MostRecentWeekdayBeforeToday ==
    request.sent =>
        IF NoRange THEN RangeIs(LatestWeekday(DayOf(clock) - 1)) ELSE ExplicitRange

\* a Monday run without a range: Sunday, Saturday and Friday were examined
C5_Witness ==
    request.sent /\ NoRange /\ request.examined = 3 /\ RangeIs(DayOf(clock) - 3)

\* C6: a step never removes or changes a row of a file; it only adds rows at
\* the end, also when it opens or re-opens the file.
C6_AppendOnly ==
    [][\A f \in DOMAIN disk' : IsPrefix(Content(disk, f, oldDates), disk'[f])]_vars

\* a file that held a row before the run was written, left and re-opened
C6_Witness ==
    \E i, j, k \in 1..Len(written) :
        /\ i < j /\ j < k
        /\ FileOf(written[i]) = FileOf(written[k])
        /\ FileOf(written[i]) /= FileOf(written[j])
        /\ disk[FileOf(written[k])][1] = OldRow
        /\ Len(disk[FileOf(written[k])]) = 3

\* the values of the -e options of an accepted command line, in order
RECURSIVE RefEvents(_, _)
RefEvents(av, i) ==
    IF i > Len(av) THEN <<>>
    ELSE IF av[i] = OptN THEN RefEvents(av, i + 1)
    ELSE IF av[i] = OptE THEN <<av[i + 1]>> \o RefEvents(av, i + 2)
    ELSE RefEvents(av, i + 2)

\* C7: the request carries TRADE, BID, ASK when no -e is given, and otherwise
\* exactly the given event types in command-line order.
C7_EventTypes ==
    request.sent =>
        request.eventTypes =
            IF RefEvents(argv, 1) = <<>> THEN <<TRADE, BID, ASK>>
            ELSE RefEvents(argv, 1)

C7_Witness == request.sent /\ request.eventTypes = <<BID, ASK>> /\ Len(argv) = 4

\* a command line made only of valid options: -n alone, the others with a value
RECURSIVE RefValid(_, _)
RefValid(av, i) ==
    IF i > Len(av) THEN TRUE
    ELSE IF av[i] = OptN THEN RefValid(av, i + 1)
    ELSE av[i] \in Options /\ i < Len(av) /\ RefValid(av, i + 2)

RECURSIVE RefHasN(_, _)
RefHasN(av, i) ==
    IF i > Len(av) THEN FALSE
    ELSE IF av[i] = OptN THEN TRUE
    ELSE RefHasN(av, i + 2)

\* C8: a valid command line with -n anywhere is accepted, its request is sent
\* and main exits without waiting for ENTER; without -n main waits for ENTER.
C8_NonInteractiveFlag ==
    (pc = "exited" /\ RefValid(argv, 1)) =>
        IF RefHasN(argv, 1)
        THEN parseOk /\ (sessionUp => request.sent) /\ ~waited
        ELSE waited

\* C9: a message with a responseError changes no file, writes no row, rolls
\* no file over and leaves the iteration over the event's messages going; a
\* RESPONSE event ends the loop whatever its messages were.
C9_ErrorMessageSkipped ==
    [][/\ (evErrors' = evErrors + 1 /\ polled' = polled) =>
              /\ disk' = disk
              /\ csv_file' = csv_file
              /\ current_processed_date' = current_processed_date
              /\ written' = written
              /\ pc' = "iter"
       /\ (pc = "iter" /\ pc' \in {"poll", "unload"} /\ event = RESPONSE) =>
              (done' /\ pc' = "unload")]_vars

\* a RESPONSE event of error messages only has ended the loop
C9_Witness ==
    /\ pc = "unload" /\ done
    /\ event = RESPONSE /\ evErrors = iterated /\ evErrors >= 1 /\ evData = 0

\* C10: no call of dateChanged reads past the end of current_processed_date.
C10_NoReadPastEnd == oob = Unread

====
